---- MODULE Spec2Model ----
(***************************************************************************)
(* The tile streaming engine of src/renderer/3dtiles/Tileset.js: the load   *)
(* pipeline (requestTiles, requestContent, the three completion handlers,   *)
(* processTiles, filterProcessingQueue), the unload path (unloadTile,       *)
(* unloadTiles) and updateFixedFrame, over a small tile tree.               *)
(*                                                                         *)
(* Tile, Cesium3DTilesetCache, Cesium3DTilesetStatistics and                *)
(* Cesium3DTilesetTraversal are imported by Tileset.js but their sources    *)
(* are not in src/; they are modelled from spec.md (sections 3, 4.1, 4.2,   *)
(* 4.4, 5) and marked so in MODEL_MAP.json.                                 *)
(***************************************************************************)
EXTENDS Integers, Sequences, FiniteSets, TLC

\* ------------------------------------------------------------------ bounds
\* Requests that may be issued in one behaviour (caps every counter).
MaxRequests == 2
\* Refused request attempts that may be counted in one behaviour.
MaxAttempted == 1
\* Selected tiles that may be counted in one behaviour.
MaxSelected == 3
\* Requests that may be issued in one behaviour in which tiles are reloaded.
MaxReloadRequests == 4
MaxRequeueRequests == 5
MaxTiles == 7

\* ------------------------------------------------- the tile tree (scenario)
\* spec.md section 8: a two-level tree, root with geometric error 100 and
\* children with geometric error 10 (two children instead of four).
Tiles == {1, 2, 3}
Root == 1
Children(t) == IF t = 1 THEN <<2, 3>> ELSE <<>>
GeometricError(t) == IF t = 1 THEN 100 ELSE 10

UNLOADED == "UNLOADED"
LOADING == "LOADING"
PROCESSING == "PROCESSING"
READY == "READY"
FAILED == "FAILED"
EXPIRED == "EXPIRED"
ContentStates == {UNLOADED, LOADING, PROCESSING, READY, FAILED, EXPIRED}

\* What a tile's content is: a renderable payload, nothing (an
\* organisational node), or a nested external tileset.
TileKinds == {"content", "empty", "tileset"}

\* tile.content: the byte sizes Cesium3DTilesetStatistics reads from it.
\* subtree: the tiles of an external tileset hang below the tile.
NoContent == [geometryByteLength |-> 0, texturesByteLength |-> 0,
              batchTableByteLength |-> 0, present |-> FALSE, subtree |-> FALSE]
ContentOf(t) == [geometryByteLength |-> t, texturesByteLength |-> 1,
                 batchTableByteLength |-> 0, present |-> TRUE, subtree |-> FALSE]
\* A loaded external tileset: no payload of its own, its tiles attached.
TilesetContent == [NoContent EXCEPT !.subtree = TRUE]

\* distanceToTile: the scenario's camera stays in place and turns or zooms.
DistanceToTile(t) == CASE t = 1 -> 50 [] t = 2 -> 40 [] OTHER -> 30

\* One frame's camera: which tiles are inside the frustum, and the factor
\* (viewport height over the field of view) that projects an error to pixels.
Cameras ==
    { [name |-> "away", sseDenominator |-> 16, visible |-> {}],
      [name |-> "wide", sseDenominator |-> 4,  visible |-> {1, 2, 3}],
      [name |-> "zoom", sseDenominator |-> 16, visible |-> {1, 2, 3}] }

\* ----------------------------------------------------------------- state
VARIABLES
    tileset,          \* the Tileset's own fields: configuration, ready, visible
    tileKind,         \* per tile: "content" | "empty" | "tileset"
    contentState,     \* tile._contentState
    content,          \* tile.content (byte sizes), NoContent when none
    priority,         \* tile._priority
    requests,         \* every request issued: <<[tile, raw, settled, reload, decs]>>
    requestedTiles,   \* tileset._requestedTiles
    selectedTiles,    \* tileset._selectedTiles
    emptyTiles,       \* tileset._emptyTiles
    visitedTiles,     \* tiles the last traversal visited
    processingQueue,  \* tileset._processingQueue
    statistics,       \* tileset._statistics
    cache,            \* tileset._cache, least recently used first
    touched,          \* cache entries touched in the current frame
    requestLog,       \* tiles requestContent was called on in the last frame, in call order
    issued,           \* number of requests issued so far
    events,           \* notifications raised by the last step, in order
    commandList,      \* frameState.commandList after the last step
    lastStep          \* the operation that ran last

vars == <<tileset, tileKind, contentState, content, priority, requests,
          requestedTiles, selectedTiles, emptyTiles, visitedTiles,
          processingQueue, statistics, cache, touched, requestLog, issued,
          events, commandList, lastStep>>

\* The mutable state as one record, so that a handler is an operator from
\* state to state and a frame is the composition of its calls.
State ==
    [tileset |-> tileset, tileKind |-> tileKind, contentState |-> contentState,
     content |-> content, priority |-> priority, requests |-> requests,
     requestedTiles |-> requestedTiles, selectedTiles |-> selectedTiles,
     emptyTiles |-> emptyTiles, visitedTiles |-> visitedTiles,
     processingQueue |-> processingQueue, statistics |-> statistics,
     cache |-> cache, touched |-> touched, requestLog |-> requestLog, issued |-> issued,
     events |-> events, commandList |-> commandList, lastStep |-> lastStep]

Commit(s) ==
    /\ tileset' = s.tileset
    /\ tileKind' = s.tileKind
    /\ contentState' = s.contentState
    /\ content' = s.content
    /\ priority' = s.priority
    /\ requests' = s.requests
    /\ requestedTiles' = s.requestedTiles
    /\ selectedTiles' = s.selectedTiles
    /\ emptyTiles' = s.emptyTiles
    /\ visitedTiles' = s.visitedTiles
    /\ processingQueue' = s.processingQueue
    /\ statistics' = s.statistics
    /\ cache' = s.cache
    /\ touched' = s.touched
    /\ requestLog' = s.requestLog
    /\ issued' = s.issued
    /\ events' = s.events
    /\ commandList' = s.commandList
    /\ lastStep' = s.lastStep

\* ------------------------------------------------------------ sequences
Range(q) == {q[i] : i \in 1..Len(q)}
Remove(q, x) == SelectSeq(q, LAMBDA y : y # x)

\* ------------------------------------------------------------ tile getters
hasEmptyContent(s, tile) == s.tileKind[tile] = "empty"
hasTilesetContent(s, tile) == s.tileKind[tile] = "tileset"
contentExpired(s, tile) == s.contentState[tile] = EXPIRED
contentUnloaded(s, tile) == s.contentState[tile] = UNLOADED
\* A tile can be drawn when it holds a payload and has not failed: a ready
\* tile, or an expired tile whose old payload is still there during its reload.
contentAvailable(s, tile) ==
    /\ s.tileKind[tile] = "content"
    /\ s.content[tile].present
    /\ s.contentState[tile] # FAILED

\* The latest request issued for a tile (0 when there is none).
CurrentRequest(s, tile) ==
    LET ids == {i \in 1..Len(s.requests) : s.requests[i].tile = tile}
    IN IF ids = {} THEN 0 ELSE CHOOSE i \in ids : \A j \in ids : j <= i

Raise(s, name, tile) == [s EXCEPT !.events = Append(@, [name |-> name, tile |-> tile])]

\* tileUnload.raiseEvent(tile): the listener runs at once; content and ready
\* are what it finds in the tile and in the statistics.
RaiseUnload(s, tile) ==
    [s EXCEPT !.events = Append(@, [name |-> "tileUnload", tile |-> tile,
                                    content |-> s.content[tile],
                                    ready |-> s.statistics.numberOfTilesWithContentReady])]

\* What a rejected promise carries: an Error with a message, or a value
\* without one, of which only the string form (text) can be reported.
NoError == [text |-> ""]
Errors == { [message |-> "request failed", text |-> "Error: request failed"],
            [text |-> "404"] }
ProcessError == [message |-> "invalid content", text |-> "Error: invalid content"]
\* What a tileLoad listener of the caller throws.
ListenerError == [message |-> "listener failed", text |-> "Error: listener failed"]

\* tile._contentResource.url
Url(tile) == tile

\* --------------------------------------------- Cesium3DTilesetStatistics
ZeroStatistics ==
    [numberOfTilesTotal |-> 0,
     numberOfPendingRequests |-> 0, numberOfTilesProcessing |-> 0,
     numberOfTilesWithContentReady |-> 0, numberOfAttemptedRequests |-> 0,
     selected |-> 0, numberOfCommands |-> 0,
     geometryByteLength |-> 0, texturesByteLength |-> 0, batchTableByteLength |-> 0]

updateLoadCounts(st, c, sign) ==
    [st EXCEPT !.geometryByteLength = @ + sign * c.geometryByteLength,
               !.texturesByteLength = @ + sign * c.texturesByteLength,
               !.batchTableByteLength = @ + sign * c.batchTableByteLength]

incrementLoadCounts(st, c) == updateLoadCounts(st, c, 1)
decrementLoadCounts(st, c) == updateLoadCounts(st, c, -1)

totalMemoryUsageInBytes(s) ==
    s.statistics.texturesByteLength + s.statistics.geometryByteLength
        + s.statistics.batchTableByteLength

\* ------------------------------------------------------------------ Tile
\* tile.requestContent(): granted iff the request layer has a free slot.
\* A granted request puts the tile in LOADING and creates the two promises
\* (contentReadyToProcessPromise, contentReadyPromise) of a new request.
TileRequestContent(s, tile, granted) ==
    IF ~granted THEN s
    ELSE [s EXCEPT
            !.contentState[tile] = LOADING,
            !.issued = @ + 1,
            !.requests = Append(@, [tile |-> tile, raw |-> FALSE, settled |-> "none",
                                    reload |-> s.contentState[tile] = EXPIRED,
                                    decs |-> 0, error |-> NoError])]

\* tile.unloadContent(): releases the payload; the tile can be requested anew.
\* FAILED is terminal.
unloadContent(s, tile) ==
    IF hasEmptyContent(s, tile) \/ hasTilesetContent(s, tile) THEN s
    ELSE [s EXCEPT !.content[tile] = NoContent,
                   !.contentState[tile] =
                       IF s.contentState[tile] = FAILED THEN FAILED ELSE UNLOADED]

\* ---------------------------------------------------- Cesium3DTilesetCache
\* An add that appends an entry whether or not the tile has one.
CacheAddAgain(s, tile) ==
    [s EXCEPT !.cache = Append(@, tile), !.touched = @ \cup {tile}]

CacheAdd(s, tile) ==
    IF tile \in Range(s.cache) THEN s
    ELSE [s EXCEPT !.cache = Append(@, tile), !.touched = @ \cup {tile}]

CacheTouch(s, tile) ==
    IF tile \notin Range(s.cache) THEN s
    ELSE [s EXCEPT !.cache = Append(Remove(@, tile), tile), !.touched = @ \cup {tile}]

\* ------------------------------------------------- the completion handlers
\* Tileset.js 140-147
\* A continuation that counts the tile as processing without queueing it.
addToProcessingQueueUnqueued(s, tile) ==
    [s EXCEPT !.statistics.numberOfPendingRequests = @ - 1,
              !.statistics.numberOfTilesProcessing = @ + 1]

addToProcessingQueue(s, tile) ==
    [s EXCEPT !.processingQueue = Append(@, tile),
              !.statistics.numberOfPendingRequests = @ - 1,
              !.statistics.numberOfTilesProcessing = @ + 1]

\* A success handler that counts and caches every tile, external tilesets too.
handleTileSuccessAnyContent(s, tile) ==
    LET s1 == [s EXCEPT !.statistics.numberOfTilesProcessing = @ - 1]
    IN Raise(CacheAdd(
               [s1 EXCEPT !.statistics =
                   [incrementLoadCounts(@, s1.content[tile])
                      EXCEPT !.numberOfTilesWithContentReady = @ + 1]],
               tile),
             "tileLoad", tile)

\* Tileset.js 149-165
handleTileSuccess(s, tile) ==
    LET s1 == [s EXCEPT !.statistics.numberOfTilesProcessing = @ - 1]
        s2 == IF ~hasTilesetContent(s1, tile)
              THEN CacheAdd(
                     [s1 EXCEPT !.statistics =
                         [incrementLoadCounts(@, s1.content[tile])
                            EXCEPT !.numberOfTilesWithContentReady = @ + 1]],
                     tile)
              ELSE s1
    IN Raise(s2, "tileLoad", tile)

\* A failure handler that reports on both channels.
handleTileFailureBothChannels(s, tile, error) ==
    LET s1 == IF tile \in Range(s.processingQueue)
              THEN [s EXCEPT !.statistics.numberOfTilesProcessing = @ - 1]
              ELSE [s EXCEPT !.statistics.numberOfPendingRequests = @ - 1]
        report == [tile |-> tile, url |-> Url(tile), message |-> error.text]
    IN [s1 EXCEPT !.events = @ \o <<[name |-> "tileFailed"] @@ report,
                                    [name |-> "log"] @@ report>>]

\* Tileset.js 167-189
handleTileFailure(s, tile, error) ==
    LET s1 == IF tile \in Range(s.processingQueue)
              THEN [s EXCEPT !.statistics.numberOfTilesProcessing = @ - 1]
              ELSE [s EXCEPT !.statistics.numberOfPendingRequests = @ - 1]
        url == Url(tile)
        message == IF "message" \in DOMAIN error THEN error.message ELSE error.text
        report == [tile |-> tile, url |-> url, message |-> message]
    IN IF s1.tileset.tileFailedListeners > 0
       THEN [s1 EXCEPT !.events = Append(@, [name |-> "tileFailed"] @@ report)]
       ELSE [s1 EXCEPT !.events = Append(@, [name |-> "log"] @@ report)]

\* A request that does not look at what the tile's content is.
requestContentAnyTile(s, tile, granted) ==
    LET s1 == TileRequestContent(s, tile, granted)
    IN IF ~granted
       THEN [s1 EXCEPT !.statistics.numberOfAttemptedRequests = @ + 1]
       ELSE [s1 EXCEPT !.statistics.numberOfPendingRequests = @ + 1]

\* A request that counts as pending whether or not it was granted.
requestContentCountRefused(s, tile, granted) ==
    IF hasEmptyContent(s, tile) THEN s
    ELSE
      LET s1 == TileRequestContent(s, tile, granted)
          s2 == IF granted THEN s1
                ELSE [s1 EXCEPT !.statistics.numberOfAttemptedRequests = @ + 1]
      IN [s2 EXCEPT !.statistics.numberOfPendingRequests = @ + 1]

\* Tileset.js 191-218
requestContent(s, tile, granted) ==
    IF hasEmptyContent(s, tile) THEN s
    ELSE
      LET expired == contentExpired(s, tile)
          s1 == TileRequestContent(s, tile, granted)
      IN IF ~granted
         THEN [s1 EXCEPT !.statistics.numberOfAttemptedRequests = @ + 1]
         ELSE
           LET s2 == IF expired /\ ~hasTilesetContent(s1, tile)
                     THEN [s1 EXCEPT !.statistics =
                             [decrementLoadCounts(@, s1.content[tile])
                                EXCEPT !.numberOfTilesWithContentReady = @ - 1]]
                     ELSE s1
           IN [s2 EXCEPT !.statistics.numberOfPendingRequests = @ + 1]

\* A comparator that ranks every pair as equal.
sortRequestByPriorityEqual(s, a, b) == 0

\* Tileset.js 95-97
sortRequestByPriority(s, a, b) == s.priority[a] - s.priority[b]

\* Array.prototype.sort with a comparator: insertion of each element after
\* the last element it does not precede (a stable sort).
RECURSIVE SortInsert(_, _, _)
SortInsert(s, sorted, x) ==
    IF sorted = <<>> THEN <<x>>
    ELSE IF sortRequestByPriority(s, sorted[Len(sorted)], x) <= 0
         THEN Append(sorted, x)
         ELSE Append(SortInsert(s, SubSeq(sorted, 1, Len(sorted) - 1), x),
                     sorted[Len(sorted)])

RECURSIVE SortPrefix(_, _, _)
SortPrefix(s, q, n) ==
    IF n = 0 THEN <<>> ELSE SortInsert(s, SortPrefix(s, q, n - 1), q[n])

Sort(s, q) == SortPrefix(s, q, Len(q))

\* The i-th call of the frame is granted while the request layer has slots:
\* calls on empty tiles never reach the request layer.
Granted(s, tiles, i, slots) ==
    Cardinality({j \in 1..i : ~hasEmptyContent(s, tiles[j])}) <= slots

RECURSIVE RequestLoop(_, _, _, _)
RequestLoop(s, tiles, i, slots) ==
    IF i > Len(tiles) THEN s
    ELSE RequestLoop(
           requestContent([s EXCEPT !.requestLog = Append(@, tiles[i])],
                          tiles[i], Granted(s, tiles, i, slots)),
           tiles, i + 1, slots)

\* Tileset.js 99-109
requestTiles(s, slots) ==
    LET s1 == [s EXCEPT !.requestedTiles = Sort(s, @)]
    IN RequestLoop(s1, s1.requestedTiles, 1, slots)

\* Tileset.js 126-136: the compaction loop. c.tiles is the array, c.removeCount
\* the entries skipped so far; i counts from 1.
RECURSIVE Compact(_, _, _)
Compact(s, c, i) ==
    IF i > Len(c.tiles) THEN c
    ELSE LET tile == c.tiles[i] IN
         IF s.contentState[tile] # PROCESSING
         THEN Compact(s, [c EXCEPT !.removeCount = @ + 1], i + 1)
         ELSE IF c.removeCount > 0
         THEN Compact(s, [c EXCEPT !.tiles[i - c.removeCount] = tile], i + 1)
         ELSE Compact(s, c, i + 1)

\* A filter that compacts the array and leaves its length as it was.
filterProcessingQueueUntrimmed(s) ==
    [s EXCEPT !.processingQueue =
        Compact(s, [tiles |-> @, removeCount |-> 0], 1).tiles]

\* Tileset.js 122-138: compaction, then tiles.length -= removeCount.
filterProcessingQueue(s) ==
    LET c == Compact(s, [tiles |-> s.processingQueue, removeCount |-> 0], 1)
    IN [s EXCEPT !.processingQueue = SubSeq(c.tiles, 1, Len(c.tiles) - c.removeCount)]

\* Tileset.js 217: contentReadyPromise.then(handleTileSuccess(..))
\* .otherwise(handleTileFailure(..)) when the promise resolves. otherwise is
\* attached to the promise that then returns, which rejects with whatever
\* handleTileSuccess throws; raiseEvent calls the listeners unprotected.
contentReadyPromiseResolved(s, tile) ==
    LET s1 == handleTileSuccess(s, tile)
    IN IF s.tileset.tileLoadThrows
       THEN handleTileFailure(s1, tile, ListenerError)
       ELSE s1

\* Tileset.js 111-120 with tile.process(): each tile of the filtered queue is
\* advanced once; `outcomes` says what the content processor reports for it.
\* Completion resolves contentReadyPromise (handleTileSuccess), an error
\* rejects it (handleTileFailure).
TileProcess(s, tile, outcome) ==
    LET r == CurrentRequest(s, tile)
    IN IF s.contentState[tile] # PROCESSING \/ r = 0 \/ outcome = "working" THEN s
       ELSE IF outcome = "ready"
       THEN contentReadyPromiseResolved(
              [s EXCEPT !.contentState[tile] = READY,
                        !.content[tile] = IF s.tileKind[tile] = "content"
                                          THEN ContentOf(tile) ELSE TilesetContent,
                        !.requests[r].settled = "ready"],
              tile)
       ELSE handleTileFailure(
              [s EXCEPT !.contentState[tile] = FAILED,
                        !.requests[r].settled = "failed",
                        !.requests[r].error = ProcessError],
              tile, ProcessError)

\* A processing loop that a failure ends.
RECURSIVE ProcessLoopUntilFailure(_, _, _, _)
ProcessLoopUntilFailure(s, tiles, i, outcomes) ==
    IF i > Len(tiles) THEN s
    ELSE IF outcomes[tiles[i]] = "failed"
         THEN TileProcess(s, tiles[i], outcomes[tiles[i]])
         ELSE ProcessLoopUntilFailure(TileProcess(s, tiles[i], outcomes[tiles[i]]),
                                      tiles, i + 1, outcomes)

RECURSIVE ProcessLoop(_, _, _, _)
ProcessLoop(s, tiles, i, outcomes) ==
    IF i > Len(tiles) THEN s
    ELSE ProcessLoop(TileProcess(s, tiles[i], outcomes[tiles[i]]), tiles, i + 1, outcomes)

processTiles(s, outcomes) ==
    LET s1 == filterProcessingQueue(s)
    IN ProcessLoop(s1, s1.processingQueue, 1, outcomes)

\* An unload that leaves the statistics as they are.
unloadTileUncounted(s, tile) == unloadContent(RaiseUnload(s, tile), tile)

\* An unload that releases the content first and notifies last.
unloadTileReleaseFirst(s, tile) ==
    LET s1 == unloadContent(s, tile)
        s2 == [s1 EXCEPT !.statistics =
                 [decrementLoadCounts(@, s1.content[tile])
                    EXCEPT !.numberOfTilesWithContentReady = @ - 1]]
    IN RaiseUnload(s2, tile)

\* Tileset.js 328-333
unloadTile(s, tile) ==
    LET s1 == RaiseUnload(s, tile)
        s2 == [s1 EXCEPT !.statistics =
                 [decrementLoadCounts(@, s1.content[tile])
                    EXCEPT !.numberOfTilesWithContentReady = @ - 1]]
    IN unloadContent(s2, tile)

\* An eviction pass that looks at the budget only.
CacheUnloadTilesAnyTile(s) ==
    IF totalMemoryUsageInBytes(s) > s.tileset.maximumMemoryUsage /\ s.cache # <<>>
    THEN unloadTile([s EXCEPT !.cache = Tail(@)], Head(s.cache))
    ELSE s

\* cache.unloadTiles(tileset, unloadCallback): evict least recently used
\* entries while over budget, never one touched in the current frame.
RECURSIVE CacheUnloadTiles(_)
CacheUnloadTiles(s) ==
    IF /\ totalMemoryUsageInBytes(s) > s.tileset.maximumMemoryUsage
       /\ s.cache # <<>>
       /\ Head(s.cache) \notin s.touched
    THEN CacheUnloadTiles(unloadTile([s EXCEPT !.cache = Tail(@)], Head(s.cache)))
    ELSE s

\* Tileset.js 340-342
unloadTiles(s) == CacheUnloadTiles(s)

\* Draw commands. stencilClearCommand is Tileset.js 220-223.
stencilClearCommand == [kind |-> "clear", tile |-> 0]
DrawCommand(tile) == [kind |-> "draw", tile |-> tile]
BackfaceCommand(tile) == [kind |-> "backface", tile |-> tile]
SceneCommand == [kind |-> "scene", tile |-> 0]
\* An array slot that a growth of the array's length left unwritten.
Undefined == [kind |-> "undefined", tile |-> 0]

\* tile.update(tileset, frameState): a tile with content pushes its draw
\* command onto the frame's command list, and a tile that is not at its
\* final resolution pushes a backface command onto tileset._backfaceCommands
\* (w.backface).
TileUpdate(w, tile) ==
    LET w1 == [w EXCEPT !.s = Raise(@, "update", tile)] IN
    IF hasEmptyContent(w.s, tile) THEN w1
    ELSE [w1 EXCEPT !.s.commandList = Append(@, DrawCommand(tile)),
                    !.backface = IF tile \in w.unresolved
                                 THEN Append(@, BackfaceCommand(tile)) ELSE @]

\* A loop that updates each tile before it raises tileVisible for it.
RECURSIVE UpdateEachUpdateFirst(_, _, _, _)
UpdateEachUpdateFirst(w, tiles, i, visible) ==
    IF i > Len(tiles) THEN w
    ELSE LET w1 == TileUpdate(w, tiles[i])
             w2 == IF visible
                   THEN [w1 EXCEPT !.s = [Raise(@, "tileVisible", tiles[i])
                                            EXCEPT !.statistics.selected = @ + 1]]
                   ELSE w1
         IN UpdateEachUpdateFirst(w2, tiles, i + 1, visible)

\* Tileset.js 249-261: the loops over the selected and the empty tiles.
RECURSIVE UpdateEach(_, _, _, _)
UpdateEach(w, tiles, i, visible) ==
    IF i > Len(tiles) THEN w
    ELSE LET w1 == IF visible
                   THEN [w EXCEPT !.s = Raise(@, "tileVisible", tiles[i])] ELSE w
             w2 == TileUpdate(w1, tiles[i])
             w3 == IF visible
                   THEN [w2 EXCEPT !.s.statistics.selected = @ + 1] ELSE w2
         IN UpdateEach(w3, tiles, i + 1, visible)

\* commandList[at + by + i] = commandList[at + i] for i counting up from 0:
\* a copy that overwrites commands it has yet to move.
RECURSIVE ShiftUpwards(_, _, _, _)
ShiftUpwards(list, at, by, i) ==
    IF i < 0 THEN list
    ELSE LET n == (Len(list) - at - by) - 1 - i
         IN ShiftUpwards([list EXCEPT ![at + by + n + 1] = list[at + n + 1]],
                         at, by, i - 1)

\* Tileset.js 297-300: commandList[at + by + i] = commandList[at + i] for i
\* from the last added command down to 0.
RECURSIVE ShiftBack(_, _, _, _)
ShiftBack(list, at, by, i) ==
    IF i < 0 THEN list
    ELSE ShiftBack([list EXCEPT ![at + by + i + 1] = list[at + i + 1]], at, by, i - 1)

\* Tileset.js 303-305: commandList[at + i] = backfaceCommands[i].
RECURSIVE PutFront(_, _, _, _)
PutFront(list, at, backfaceCommands, i) ==
    IF i > Len(backfaceCommands) THEN list
    ELSE PutFront([list EXCEPT ![at + i] = backfaceCommands[i]],
                  at, backfaceCommands, i + 1)

\* Tileset.js 225-326. frameState: the frame's command list, whether the
\* context has a stencil buffer, and (for tile.update) the selected tiles not
\* at their final resolution. Its calls in updateFixedFrame are commented
\* out (1095-1096).
updateTiles(s, frameState) ==
    LET s0 == [s EXCEPT !.commandList = frameState.commandList]
        numberOfInitialCommands == Len(s0.commandList)
        selectedLength == Len(s.selectedTiles)
        bivariateVisibilityTest ==
            /\ s.tileset.skipLevelOfDetail /\ s.tileset.hasMixedContent
            /\ frameState.stencilBuffer /\ selectedLength > 0
        s1 == IF bivariateVisibilityTest
              THEN [s0 EXCEPT !.commandList = Append(@, stencilClearCommand)]
              ELSE s0
        lengthBeforeUpdate == Len(s1.commandList)
        w0 == [s |-> s1, backface |-> <<>>, unresolved |-> frameState.unresolved]
        w == UpdateEach(UpdateEach(w0, s.selectedTiles, 1, TRUE), s.emptyTiles, 1, FALSE)
        addedCommandsLength == Len(w.s.commandList) - lengthBeforeUpdate
        backfaceCommandsLength == Len(w.backface)
        grown == w.s.commandList \o [i \in 1..backfaceCommandsLength |-> Undefined]
        list == IF bivariateVisibilityTest
                THEN PutFront(ShiftBack(grown, lengthBeforeUpdate, backfaceCommandsLength,
                                        addedCommandsLength - 1),
                              lengthBeforeUpdate, w.backface, 1)
                ELSE w.s.commandList
    IN [w.s EXCEPT !.commandList = list,
                   !.statistics.numberOfCommands = Len(list) - numberOfInitialCommands]

\* ------------------------------------------------ Cesium3DTilesetTraversal
computeScreenSpaceError(tile, camera) ==
    (GeometricError(tile) * camera.sseDenominator) \div DistanceToTile(tile)

selectTile(s, tile) ==
    IF contentAvailable(s, tile) THEN [s EXCEPT !.selectedTiles = Append(@, tile)] ELSE s

\* A child no longer holds back its parent's refinement.
childLoaded(s, tile) ==
    \/ hasEmptyContent(s, tile)
    \/ hasTilesetContent(s, tile) /\ s.contentState[tile] = READY
    \/ contentAvailable(s, tile)

\* A refinement test that does not wait for the children.
canRefineAlways(s, kids) == TRUE

\* Without level skipping a tile refines only when every visible child is
\* loaded: until then the tile itself is drawn.
canRefine(s, kids) == \A c \in Range(kids) : childLoaded(s, c)

RECURSIVE visitTile(_, _, _, _)
RECURSIVE visitChildren(_, _, _, _, _)

visitChildren(s, camera, kids, i, selecting) ==
    IF i > Len(kids) THEN s
    ELSE visitChildren(visitTile(s, camera, kids[i], selecting), camera, kids, i + 1,
                       selecting)

visitTile(s, camera, tile, selecting) ==
    IF tile \notin camera.visible THEN s
    ELSE
      LET s1 == CacheTouch([s EXCEPT !.visitedTiles = @ \cup {tile},
                                     !.priority[tile] = DistanceToTile(tile)], tile)
          s2 == IF hasEmptyContent(s1, tile)
                THEN [s1 EXCEPT !.emptyTiles = Append(@, tile)]
                ELSE IF contentUnloaded(s1, tile) \/ contentExpired(s1, tile)
                     THEN [s1 EXCEPT !.requestedTiles = Append(@, tile)]
                     ELSE s1
          kids == SelectSeq(Children(tile), LAMBDA c : c \in camera.visible)
          meets == computeScreenSpaceError(tile, camera)
                       <= s.tileset.maximumScreenSpaceError
          allLoaded == canRefine(s2, kids)
      IN IF meets \/ kids = <<>>
         THEN IF selecting THEN selectTile(s2, tile) ELSE s2
         ELSE IF s.tileset.skipLevelOfDetail
         THEN LET s3 == visitChildren(s2, camera, kids, 1, selecting)
              IN IF selecting /\ ~allLoaded THEN selectTile(s3, tile) ELSE s3
         ELSE IF allLoaded
         THEN visitChildren(s2, camera, kids, 1, selecting)
         ELSE LET s3 == visitChildren(s2, camera, kids, 1, FALSE)
              IN IF selecting THEN selectTile(s3, tile) ELSE s3

selectTiles(s, camera) ==
    visitTile([s EXCEPT !.selectedTiles = <<>>, !.emptyTiles = <<>>,
                        !.visitedTiles = {}, !.touched = {}],
              camera, Root, TRUE)

\* ------------------------------------------------------- updateFixedFrame
\* A frame that keeps the requested list of the frame before.
updateFixedFrameKeepRequested(s, camera, slots, outcomes) ==
    IF ~s.tileset.ready \/ ~s.tileset.visible THEN s
    ELSE processTiles(requestTiles(selectTiles(s, camera), slots), outcomes)

\* A frame that runs on a tileset that is not shown.
updateFixedFrameHidden(s, camera, slots, outcomes) ==
    IF ~s.tileset.ready THEN s
    ELSE
      LET s1 == [s EXCEPT !.requestedTiles = <<>>]
          s2 == selectTiles(s1, camera)
          s3 == requestTiles(s2, slots)
      IN processTiles(s3, outcomes)

\* Tileset.js 1058-1101
updateFixedFrame(s, camera, slots, outcomes) ==
    IF ~s.tileset.ready \/ ~s.tileset.visible THEN s
    ELSE
      LET s1 == [s EXCEPT !.requestedTiles = <<>>]
          s2 == selectTiles(s1, camera)
          s3 == requestTiles(s2, slots)
      IN processTiles(s3, outcomes)

\* The frame when the requested list it is handed also names the empty tiles
\* the traversal met: requestTiles runs over whatever the list holds.
updateFixedFrameEmptyRequested(s, camera, slots, outcomes) ==
    IF ~s.tileset.ready \/ ~s.tileset.visible THEN s
    ELSE
      LET s1 == selectTiles([s EXCEPT !.requestedTiles = <<>>], camera)
          s2 == [s1 EXCEPT !.requestedTiles = @ \o s1.emptyTiles]
      IN processTiles(requestTiles(s2, slots), outcomes)

\* ------------------------------------------------------------ construction
\* defaultValue(options.x, d): an option the caller left out is undefined.
defaultValue(o, field, d) == IF field \in DOMAIN o THEN o[field] ELSE d

\* Tileset.js 345-895: the fields the constructor derives from its options.
Constructor(o) ==
    [maximumScreenSpaceError |-> defaultValue(o, "maximumScreenSpaceError", 16),
     maximumMemoryUsage |-> defaultValue(o, "maximumMemoryUsage", 512),
     skipLevelOfDetail |-> defaultValue(o, "skipLevelOfDetail", TRUE),
     baseScreenSpaceError |-> defaultValue(o, "baseScreenSpaceError", 1024),
     skipScreenSpaceErrorFactor |-> defaultValue(o, "skipScreenSpaceErrorFactor", 16),
     skipLevels |-> defaultValue(o, "skipLevels", 1),
     tileFailedListeners |-> 0,
     visible |-> TRUE,
     hasMixedContent |-> FALSE,
     allTilesAdditive |-> TRUE,
     dynamicScreenSpaceErrorDensity |-> 278,
     dynamicScreenSpaceErrorHeightFalloff |-> 25,
     dynamicScreenSpaceErrorComputedDensity |-> [nan |-> FALSE, num |-> 0, den |-> 1],
     readyPromise |-> "pending",
     tilesLoaded |-> FALSE,
     initialTilesLoaded |-> FALSE,
     ready |-> FALSE]

\* The set-ups explored: constructor options, the number of tileFailed
\* listeners the caller registers, and what tile 3's content is.
Scenarios ==
    << [options |-> [show |-> TRUE],
        listeners |-> 0, kind3 |-> "content"],
       [options |-> [maximumScreenSpaceError |-> 16, maximumMemoryUsage |-> 0,
                     skipLevelOfDetail |-> FALSE],
        listeners |-> 1, kind3 |-> "content"],
       [options |-> [maximumMemoryUsage |-> 4, skipLevelOfDetail |-> FALSE],
        listeners |-> 0, kind3 |-> "empty"],
       [options |-> [maximumMemoryUsage |-> 4],
        listeners |-> 1, kind3 |-> "tileset"] >>

\* The numeric options of the constructor, and values a caller may supply.
NumericOptions == {"maximumScreenSpaceError", "maximumMemoryUsage",
                   "baseScreenSpaceError", "skipScreenSpaceErrorFactor", "skipLevels"}
SuppliedNumbers == {0 - 1, 0, 5}

\* Option objects that supply one numeric option.
SuppliedOptions ==
    {[show |-> TRUE] @@ (field :> n) : field \in NumericOptions, n \in SuppliedNumbers}

InitWithListener(sc, throws) ==
      /\ tileset = [Constructor(sc.options) EXCEPT !.tileFailedListeners = sc.listeners]
                   @@ [fetched |-> FALSE, tileLoadThrows |-> throws,
                       basePath |-> <<"base/">>, root |-> 0, tiles |-> <<>>]
      /\ tileKind = [t \in Tiles |-> IF t = 3 THEN sc.kind3 ELSE "content"]
      /\ contentState = [t \in Tiles |-> UNLOADED]
      /\ content = [t \in Tiles |-> NoContent]
      /\ priority = [t \in Tiles |-> 0]
      /\ requests = <<>>
      /\ requestedTiles = <<>>
      /\ selectedTiles = <<>>
      /\ emptyTiles = <<>>
      /\ visitedTiles = {}
      /\ processingQueue = <<>>
      /\ statistics = ZeroStatistics
      /\ cache = <<>>
      /\ touched = {}
      /\ requestLog = <<>>
      /\ issued = 0
      /\ events = <<>>
      /\ commandList = <<>>
      /\ lastStep = "construct"

\* The caller registers no tileLoad listener that throws.
InitWith(sc) == InitWithListener(sc, FALSE)

Init == \E i \in 1..Len(Scenarios) : InitWith(Scenarios[i])

\* The caller registers a tileLoad listener that throws.
InitThrowing == \E i \in 1..Len(Scenarios) : InitWithListener(Scenarios[i], TRUE)

\* new Tileset(options) with a numeric option supplied by the caller.
InitSupplied ==
    \E o \in SuppliedOptions :
        InitWith([options |-> o, listeners |-> 0, kind3 |-> "content"])

\* ------------------------------------------- dynamic screen space error
\* Numbers: the density is counted in 1/100000 (0.00278 is 278), the height
\* falloff in 1/100 (0.25 is 25), the dot product of two unit vectors in
\* halves; a computed density is the fraction num / den, or NaN.
\* The names bound where Tileset.js runs: its imports (lines 1-20), its own
\* declarations and the language's Math.
ModuleScope ==
    {"THREE", "when", "defined", "defaultValue", "Fetcher", "RuntimeError", "Tile",
     "Resource", "Event", "Cesium3DTilesetCache", "ManagedArray",
     "Cesium3DTilesetStatistics", "Cesium3DTileRefine", "Axis",
     "Cesium3DTilesetTraversal", "DeveloperError", "Cesium3DTileOptimizations",
     "Cesium3DTileContentState", "Check", "ClearCommand", "stencilClearCommand",
     "Math"}

\* The names updateDynamicScreenSpaceError reads besides its own variables
\* on the path of a root bounded by a region, in the order it reads them.
RegionPathNames ==
    <<"TileBoundingRegion", "Cartesian3", "scratchPositionNormal", "CesiumMath", "Math">>

\* A page that loads the Cesium library as globals under these names.
CesiumGlobals ==
    {"TileBoundingRegion", "TileOrientedBoundingBox", "TileBoundingSphere",
     "Cartesian3", "Cartographic", "Matrix4", "CesiumMath", "scratchPositionNormal",
     "scratchMatrix", "scratchCenter", "scratchCartographic", "scratchPosition",
     "scratchDirection"}

\* What the function makes of camera and root bounds before line 74: the
\* camera's height, the bounds' minimum and maximum height, and |direction .
\* up| in halves.
DynamicFrameStates ==
    [height : {0, 10, 50}, minimumHeight : {0}, maximumHeight : {0, 40}, dot : 0..2]

\* Tileset.js 74-90. (height - heightClose) / (heightFar - heightClose) is
\* tNum / tDen; 0 / 0 is NaN and clamp(NaN, 0, 1) is NaN; x / 0 is an
\* infinity, which clamp takes to 0 or 1.
ComputedDensity(s, frameState) ==
    LET heightFalloff == s.tileset.dynamicScreenSpaceErrorHeightFalloff
        span == frameState.maximumHeight - frameState.minimumHeight
        tNum == (frameState.height - frameState.minimumHeight) * 100 - span * heightFalloff
        tDen == span * (100 - heightFalloff)
        horizonFactor == 2 - frameState.dot
        density == s.tileset.dynamicScreenSpaceErrorDensity
    IN IF tDen = 0 /\ tNum = 0 THEN [nan |-> TRUE, num |-> 0, den |-> 1]
       ELSE IF tDen = 0
       THEN [nan |-> FALSE, num |-> IF tNum > 0 THEN 0 ELSE density * horizonFactor,
             den |-> 2]
       ELSE LET clamped == IF tNum < 0 THEN 0 ELSE IF tNum > tDen THEN tDen ELSE tNum
            IN [nan |-> FALSE, num |-> density * horizonFactor * (tDen - clamped),
                den |-> 2 * tDen]

\* Tileset.js 23-93 for a root bounded by a region. Reading a name that
\* nothing binds throws a ReferenceError, and the statements after it do not
\* run.
updateDynamicScreenSpaceError(s, frameState, scope) ==
    LET unbound == SelectSeq(RegionPathNames, LAMBDA n : n \notin scope) IN
    IF unbound # <<>>
    THEN [s EXCEPT !.events = Append(@, [name |-> "ReferenceError",
                                         identifier |-> Head(unbound)])]
    ELSE [s EXCEPT !.tileset.dynamicScreenSpaceErrorComputedDensity =
                       ComputedDensity(s, frameState)]

\* ----------------------------------------------------------------- setters
\* A JavaScript value handed to a setter: its typeof, and the number it is
\* (for a string, the number its digits spell).
Number(n) == [type |-> "number", num |-> n]
AssignedValues == {Number(0 - 1), Number(0), Number(3), Number(1000),
                   [type |-> "string", num |-> 16], [type |-> "undefined", num |-> 0]}

\* Check.typeOf.number.greaterThanOrEquals(name, value, limit) returns when
\* value is a number not below limit, and throws a DeveloperError otherwise.
greaterThanOrEquals(value, limit) == value.type = "number" /\ value.num >= limit

\* A setter call: the call is logged, then the precondition is checked, then
\* the value is stored; a failed precondition throws before the store.
SetChecked(s, property, name, value) ==
    LET s1 == [s EXCEPT !.events = Append(@, [name |-> "set", property |-> property,
                                             value |-> value])]
    IN IF ~greaterThanOrEquals(value, 0)
       THEN [s1 EXCEPT !.events = Append(@, [name |-> "DeveloperError",
                                             argument |-> name])]
       ELSE [s1 EXCEPT !.tileset[property] = value.num]

\* A setter that stores the nearest acceptable value instead of throwing.
setMaximumScreenSpaceErrorClamped(s, value) ==
    [s EXCEPT !.events = Append(@, [name |-> "set",
                                    property |-> "maximumScreenSpaceError",
                                    value |-> value]),
              !.tileset.maximumScreenSpaceError =
                  IF value.type = "number" /\ value.num >= 0 THEN value.num ELSE 0]

\* Tileset.js 1125-1131.
setMaximumScreenSpaceError(s, value) ==
    SetChecked(s, "maximumScreenSpaceError", "maximumScreenSpaceError", value)

\* Tileset.js 1137-1143.
setMaximumMemoryUsage(s, value) ==
    SetChecked(s, "maximumMemoryUsage", "value", value)

\* A request is over once both of its promises have settled.
Finished(r) == r.raw /\ r.settled # "none"

\* The state a step starts from: its own notifications only, and no record
\* of the requests that were over before it.
Fresh(step) ==
    [State EXCEPT !.events = <<>>, !.commandList = <<>>, !.lastStep = step,
                  !.requests = SelectSeq(@, LAMBDA r : ~Finished(r))]

\* Decrements of numberOfPendingRequests made by a continuation of request r.
Attribute(before, after, r) ==
    [after EXCEPT !.requests[r].decs =
        @ + before.statistics.numberOfPendingRequests
          - after.statistics.numberOfPendingRequests]

\* ----------------------------------------------------------------- actions
\* Tileset documents: well formed, of a version that is not supported,
\* with an asset that names no version, and without an asset.
RootHeader == [uri |-> Root, refine |-> "REPLACE",
               children |-> <<[uri |-> 2], [uri |-> 3]>>]
WellFormed == [asset |-> [version |-> "1.0"], root |-> RootHeader]
Documents == { WellFormed,
               [asset |-> [version |-> "0.0"], root |-> RootHeader],
               [asset |-> [version |-> "2.0"], root |-> RootHeader],
               [asset |-> [tilesetVersion |-> "a"], root |-> RootHeader],
               [root |-> RootHeader] }

\* Tile hierarchies of other shapes: a single tile, a root with two leaves
\* of which one names no refinement, an additive hierarchy two levels deep,
\* and a root with an empty list of children.
Headers ==
    { [uri |-> 1, refine |-> "ADD"],
      [uri |-> 1, refine |-> "REPLACE",
       children |-> <<[uri |-> 2, refine |-> "ADD"], [uri |-> 3]>>],
      [uri |-> 1, refine |-> "ADD",
       children |-> <<[uri |-> 2, children |-> <<[uri |-> 4, refine |-> "ADD"]>>],
                      [uri |-> 3]>>],
      [uri |-> 1, children |-> <<>>] }

TreeDocuments ==
    {[asset |-> a, root |-> h] :
        a \in {[version |-> "1.0"], [version |-> "0.0", tilesetVersion |-> "a"]},
        h \in Headers}
    \cup {[asset |-> [version |-> "2.0"], root |-> RootHeader],
          [asset |-> [tilesetVersion |-> "a"], root |-> RootHeader],
          [root |-> RootHeader]}

\* A loadTileset that checks that there is an asset and nothing more.
loadTilesetErrorAssetOnly(tilesetJson) ==
    IF "asset" \notin DOMAIN tilesetJson
    THEN "Tileset must have an asset property."
    ELSE ""

\* Tileset.js 966-974: the checks loadTileset makes before it builds tiles;
\* the result is the message of the RuntimeError thrown, or "" for none.
loadTilesetError(tilesetJson) ==
    IF "asset" \notin DOMAIN tilesetJson
    THEN "Tileset must have an asset property."
    ELSE IF \/ "version" \notin DOMAIN tilesetJson.asset
            \/ tilesetJson.asset.version \notin {"0.0", "1.0"}
         THEN "The tileset must be 3D Tiles version 0.0 or 1.0."
         ELSE ""

\* No tile: an undefined parentTile, an undefined _root.
NoTile == 0

\* new Tile(tileset, resource, header, parent): a tile that names no
\* refinement takes its parent's, the root REPLACE; it starts at depth 0,
\* without children and outside the scene graph.
NewTile(header, parent, tiles) ==
    [header |-> header,
     parent |-> parent,
     refine |-> IF "refine" \in DOMAIN header THEN header.refine
                ELSE IF parent # NoTile THEN tiles[parent].refine
                ELSE "REPLACE",
     depth |-> 0,
     childrenTile |-> <<>>,
     object3dParent |-> NoTile]

\* THREE.Object3D.add(object): the object leaves the parent it had.
Object3DAdd(tiles, parent, object) == [tiles EXCEPT ![object].object3dParent = parent]

\* Children that are created at their parent's depth.
RECURSIVE AddChildrenSameDepth(_, _, _, _, _)
AddChildrenSameDepth(tiles, stack, tile, children, i) ==
    IF i > Len(children) THEN [tiles |-> tiles, stack |-> stack]
    ELSE LET childTile == Len(tiles) + 1
             t1 == Append(tiles, NewTile(children[i], tile, tiles))
             t2 == [t1 EXCEPT ![tile].childrenTile = Append(@, childTile)]
             t3 == [Object3DAdd(t2, tile, childTile)
                      EXCEPT ![childTile].depth = t2[tile].depth]
         IN AddChildrenSameDepth(t3, Append(stack, childTile), tile, children, i + 1)

\* Tileset.js 1006-1018: the loop over the children of a tile's header.
RECURSIVE AddChildren(_, _, _, _, _)
AddChildren(tiles, stack, tile, children, i) ==
    IF i > Len(children) THEN [tiles |-> tiles, stack |-> stack]
    ELSE LET childTile == Len(tiles) + 1
             t1 == Append(tiles, NewTile(children[i], tile, tiles))
             t2 == [t1 EXCEPT ![tile].childrenTile = Append(@, childTile)]
             t3 == [Object3DAdd(t2, tile, childTile)
                      EXCEPT ![childTile].depth = t2[tile].depth + 1]
         IN AddChildren(t3, Append(stack, childTile), tile, children, i + 1)

\* Tileset.js 998-1023: the loop over the stack of tiles still to visit.
RECURSIVE LoadLoop(_, _)
LoadLoop(s, stack) ==
    IF stack = <<>> THEN s
    ELSE LET tile == stack[Len(stack)]
             header == s.tileset.tiles[tile].header
             children == IF "children" \in DOMAIN header THEN header.children ELSE <<>>
             s1 == [s EXCEPT !.statistics.numberOfTilesTotal = @ + 1,
                             !.tileset.allTilesAdditive =
                                 @ /\ (s.tileset.tiles[tile].refine = "ADD")]
             w == AddChildren(s1.tileset.tiles, SubSeq(stack, 1, Len(stack) - 1),
                              tile, children, 1)
         IN LoadLoop([s1 EXCEPT !.tileset.tiles = w.tiles], w.stack)

\* The tileset as an object of the scene graph.
TilesetObject == 0 - 1

\* Tileset.js 966-1029: loadTileset(resource, tilesetJson, parentTile); the
\* tile returned is the one created first, Len(tiles) + 1. A document that
\* fails the checks makes it throw before anything is changed.
loadTileset(s, tilesetJson, parentTile) ==
    IF loadTilesetError(tilesetJson) # "" THEN s
    ELSE
      LET asset == tilesetJson.asset
          s1 == IF "tilesetVersion" \in DOMAIN asset
                THEN [s EXCEPT !.tileset.basePath = @ \o <<"?v=", asset.tilesetVersion>>]
                ELSE s
          rootTile == Len(s1.tileset.tiles) + 1
          t0 == Append(s1.tileset.tiles,
                       NewTile(tilesetJson.root, parentTile, s1.tileset.tiles))
          t1 == IF parentTile # NoTile
                THEN [Object3DAdd([t0 EXCEPT ![parentTile].childrenTile = Append(@, rootTile)],
                                  parentTile, rootTile)
                        EXCEPT ![rootTile].depth = t0[parentTile].depth + 1]
                ELSE t0
          s2 == LoadLoop([s1 EXCEPT !.tileset.tiles = t1], <<rootTile>>)
      IN [s2 EXCEPT !.tileset.tiles = Object3DAdd(@, TilesetObject, rootTile)]

\* Tileset.js 943-960: the continuation of the document fetch. An error
\* thrown by loadTileset rejects the promise that then() returned, which
\* nothing holds; the statements after the throw do not run.
fromJsonThen(s, tilesetJson) ==
    LET s1 == [s EXCEPT !.tileset.fetched = TRUE] IN
    IF loadTilesetError(tilesetJson) # ""
    THEN [s1 EXCEPT !.events = Append(@, [name |-> "RuntimeError",
                                          message |-> loadTilesetError(tilesetJson),
                                          heldBy |-> "nobody"])]
    ELSE [loadTileset(s1, tilesetJson, NoTile)
            EXCEPT !.tileset.root = Len(s1.tileset.tiles) + 1,
                   !.tileset.ready = TRUE,
                   !.tileset.readyPromise = "resolved"]

\* Tileset.js 898-964: the tileset document arrives and the root is set.
LoadTileset ==
    /\ ~tileset.fetched
    /\ Commit(fromJsonThen(Fresh("load"), WellFormed))

\* The document that arrives is any document.
LoadTilesetDocument ==
    /\ ~tileset.fetched
    /\ \E tilesetJson \in Documents : Commit(fromJsonThen(Fresh("load"), tilesetJson))

\* One frame: the camera, the free slots of the request layer and the
\* content processor's progress are the frame's inputs.
InProcessing == {t \in Range(processingQueue) : contentState[t] = PROCESSING}

FrameFrom(camera, slots, outcomes) ==
    updateFixedFrame([Fresh("frame") EXCEPT !.requestLog = <<>>], camera, slots, outcomes)

WithinBounds(s) ==
    /\ s.issued <= MaxRequests
    /\ s.statistics.numberOfAttemptedRequests <= MaxAttempted

UpdateFixedFrame ==
    \E camera \in Cameras, slots \in 0..Cardinality(Tiles) :
      \E outcomes \in [InProcessing -> {"working", "ready", "failed"}] :
        LET s == FrameFrom(camera, slots, outcomes)
        IN WithinBounds(s) /\ Commit(s)

\* A frame in which no content fails to process.
UpdateFixedFrameLoading ==
    \E camera \in Cameras, slots \in 0..Cardinality(Tiles) :
      \E outcomes \in [InProcessing -> {"working", "ready"}] :
        LET s == FrameFrom(camera, slots, outcomes)
        IN WithinBounds(s) /\ Commit(s)

\* A frame in which the content processor finishes, one way or the other,
\* with every tile it is called on.
UpdateFixedFrameSettling ==
    \E camera \in Cameras, slots \in 0..Cardinality(Tiles) :
      \E outcomes \in [InProcessing -> {"ready", "failed"}] :
        LET s == FrameFrom(camera, slots, outcomes)
        IN WithinBounds(s) /\ Commit(s)

\* A frame in which every request is granted and no content fails.
UpdateFixedFrameReloading ==
    \E camera \in Cameras :
      \E outcomes \in [InProcessing -> {"working", "ready"}] :
        LET s == FrameFrom(camera, Cardinality(Tiles), outcomes)
        IN s.issued <= MaxReloadRequests /\ Commit(s)

\* A frame whose requested list names empty tiles too.
UpdateFixedFrameEmptyRequested ==
    \E camera \in Cameras, slots \in 0..Cardinality(Tiles) :
      \E outcomes \in [InProcessing -> {"working", "ready", "failed"}] :
        LET s == updateFixedFrameEmptyRequested(
                    [Fresh("frame") EXCEPT !.requestLog = <<>>], camera, slots, outcomes)
        IN WithinBounds(s) /\ Commit(s)

\* The fetch of request r delivers its bytes: contentReadyToProcessPromise
\* resolves and its continuation runs.
RawContentArrived ==
    LET f == Fresh("raw")
    IN \E r \in 1..Len(f.requests) :
         /\ ~f.requests[r].raw
         /\ LET tile == f.requests[r].tile
                s0 == [f EXCEPT !.requests[r].raw = TRUE]
                s1 == IF CurrentRequest(s0, tile) = r /\ s0.contentState[tile] = LOADING
                      THEN [s0 EXCEPT !.contentState[tile] = PROCESSING]
                      ELSE s0
            IN Commit(Attribute(s1, addToProcessingQueue(s1, tile), r))

\* Request r fails (fetch error, decode error, or cancellation reported as a
\* failure): contentReadyPromise rejects and its continuation runs.
ContentFailed ==
    LET f == Fresh("failed")
    IN \E r \in 1..Len(f.requests), error \in Errors :
         /\ f.requests[r].settled = "none"
         /\ LET tile == f.requests[r].tile
                s0 == [f EXCEPT !.requests[r].settled = "failed",
                                !.requests[r].error = error]
                s1 == IF CurrentRequest(s0, tile) = r
                         /\ s0.contentState[tile] \in {LOADING, PROCESSING}
                      THEN [s0 EXCEPT !.contentState[tile] = FAILED]
                      ELSE s0
            IN Commit(Attribute(s1, handleTileFailure(s1, tile, error), r))

\* A ready tile's expiry date passes.
Expire ==
    \E tile \in Tiles :
      /\ contentState[tile] = READY
      /\ ~hasEmptyContent(State, tile)
      /\ Commit([Fresh("expire") EXCEPT !.contentState[tile] = EXPIRED])

\* unloadTiles(tileset): the eviction pass.
UnloadTiles ==
    \E s \in {unloadTiles(Fresh("unload"))} : Commit(s)

Next ==
    \/ LoadTileset
    \/ UpdateFixedFrame
    \/ RawContentArrived
    \/ ContentFailed
    \/ Expire
    \/ UnloadTiles

Spec == Init /\ [][Next]_vars

\* The tileset when no fetch fails, no content fails to process and no
\* content expires: tiles only load and are evicted.
NextRoundTrip ==
    \/ LoadTileset
    \/ UpdateFixedFrameLoading
    \/ RawContentArrived
    \/ UnloadTiles

SpecRoundTrip == Init /\ [][NextRoundTrip]_vars

\* The tileset when processing a tile takes a single call of tile.process.
NextSettling ==
    \/ LoadTileset
    \/ UpdateFixedFrameSettling
    \/ RawContentArrived
    \/ ContentFailed

SpecSettling == Init /\ [][NextSettling]_vars

\* The caller assigns tileset.maximumScreenSpaceError.
SetMaximumScreenSpaceError ==
    \E value \in AssignedValues :
      \E s \in {setMaximumScreenSpaceError(Fresh("set"), value)} : Commit(s)

\* The caller assigns tileset.maximumMemoryUsage.
SetMaximumMemoryUsage ==
    \E value \in AssignedValues :
      \E s \in {setMaximumMemoryUsage(Fresh("set"), value)} : Commit(s)

\* The tileset while only its settings are assigned.
NextAssigning ==
    \/ LoadTileset
    \/ SetMaximumScreenSpaceError
    \/ SetMaximumMemoryUsage

SpecAssigning == Init /\ [][NextAssigning]_vars

\* The frame states updateTiles is called with: the commands the scene has
\* queued already, the context's stencil buffer, and the selected tiles that
\* are not at their final resolution.
FrameStates(s) ==
    [commandList : {<<>>, <<SceneCommand>>},
     stencilBuffer : BOOLEAN,
     unresolved : SUBSET Range(s.selectedTiles)]

\* updateTiles is called after a frame's traversal, which has written
\* tileset._hasMixedContent.
UpdateTiles ==
    /\ lastStep = "frame"
    /\ tileset.ready
    /\ \E hasMixedContent \in BOOLEAN :
        LET s0 == [Fresh("updateTiles") EXCEPT !.tileset.hasMixedContent = hasMixedContent]
        IN \E frameState \in FrameStates(s0) :
             LET call == [name |-> "updateTiles", frameState |-> frameState]
                 s == updateTiles([s0 EXCEPT !.events = Append(@, call)], frameState)
             IN s.statistics.selected <= MaxSelected /\ Commit(s)

\* The tileset when the application calls updateTiles after a frame.
NextUpdateTiles ==
    \/ LoadTileset
    \/ UpdateFixedFrameReloading
    \/ RawContentArrived
    \/ UpdateTiles

SpecUpdateTiles == Init /\ [][NextUpdateTiles]_vars

\* updateDynamicScreenSpaceError is called on a ready tileset, in the module
\* as written or on a page that defines the Cesium names as globals.
UpdateDynamicScreenSpaceError ==
    /\ tileset.ready
    /\ \E frameState \in DynamicFrameStates :
       \E scope \in {ModuleScope, ModuleScope \cup CesiumGlobals} :
         LET call == [name |-> "updateDynamicScreenSpaceError",
                      frameState |-> frameState, scope |-> scope]
         IN Commit(updateDynamicScreenSpaceError(
                      [Fresh("dynamic") EXCEPT !.events = Append(@, call)],
                      frameState, scope))

NextDynamic ==
    \/ LoadTileset
    \/ UpdateDynamicScreenSpaceError

SpecDynamic == Init /\ [][NextDynamic]_vars

\* The tileset when the document fetched may be malformed.
NextDocument ==
    \/ LoadTilesetDocument
    \/ UpdateFixedFrame
    \/ RawContentArrived

SpecDocument == Init /\ [][NextDocument]_vars

\* A tileset constructed with caller-supplied numbers, then assigned to.
SpecSupplied == InitSupplied /\ [][NextAssigning]_vars

\* The tileset when contents expire and are reloaded, and nothing fails.
NextReloading ==
    \/ LoadTileset
    \/ UpdateFixedFrameReloading
    \/ RawContentArrived
    \/ Expire

SpecReloading == Init /\ [][NextReloading]_vars

\* A frame in which every request is granted and no content fails, while
\* contents expire and are evicted between frames.
UpdateFixedFrameRequeue ==
    \E camera \in Cameras :
      \E outcomes \in [InProcessing -> {"working", "ready"}] :
        LET s == FrameFrom(camera, Cardinality(Tiles), outcomes)
        IN s.issued <= MaxRequeueRequests /\ Commit(s)

\* The tileset when contents expire, are reloaded and are evicted, and
\* nothing fails.
NextRequeue ==
    \/ LoadTileset
    \/ UpdateFixedFrameRequeue
    \/ RawContentArrived
    \/ Expire
    \/ UnloadTiles

SpecRequeue == Init /\ [][NextRequeue]_vars

\* The caller assigns the visible flag the tileset has as a THREE.Object3D.
SetVisible ==
    \E visible \in BOOLEAN :
      \E s \in {[Fresh("show") EXCEPT !.tileset.visible = visible]} : Commit(s)

\* The tileset when the caller hides and shows it.
NextHidden ==
    \/ LoadTileset
    \/ SetVisible
    \/ UpdateFixedFrame
    \/ RawContentArrived

SpecHidden == Init /\ [][NextHidden]_vars

\* The headers of a hierarchy, a tile's before its children's.
RECURSIVE Nodes(_), NodesOf(_, _)
Nodes(header) ==
    <<header>> \o (IF "children" \in DOMAIN header
                   THEN NodesOf(header.children, 1) ELSE <<>>)
NodesOf(children, i) ==
    IF i > Len(children) THEN <<>>
    ELSE Nodes(children[i]) \o NodesOf(children, i + 1)

\* The record of a call of loadTileset.
LoadTilesetCall(tilesetJson, parentTile) ==
    [name |-> "loadTileset", tilesetJson |-> tilesetJson, parentTile |-> parentTile]

\* fromJson: the document that arrives is a hierarchy of any shape, or is
\* malformed.
LoadTilesetTree ==
    /\ ~tileset.fetched
    /\ \E tilesetJson \in TreeDocuments :
          Commit(fromJsonThen(
                   [Fresh("load") EXCEPT !.events = <<LoadTilesetCall(tilesetJson, NoTile)>>],
                   tilesetJson))

\* A tile whose content is an external tileset calls loadTileset with
\* itself as parentTile; an error loadTileset throws is the caller's.
LoadExternalTileset ==
    /\ tileset.ready
    /\ \E parentTile \in 1..Len(tileset.tiles), tilesetJson \in TreeDocuments :
          /\ tileset.tiles[parentTile].childrenTile = <<>>
          /\ Len(tileset.tiles) + Len(Nodes(tilesetJson.root)) <= MaxTiles
          /\ LET f == [Fresh("external")
                         EXCEPT !.events = <<LoadTilesetCall(tilesetJson, parentTile)>>]
             IN IF loadTilesetError(tilesetJson) # ""
                THEN Commit([f EXCEPT !.events =
                               Append(@, [name |-> "RuntimeError",
                                          message |-> loadTilesetError(tilesetJson),
                                          heldBy |-> "caller"])])
                ELSE Commit(loadTileset(f, tilesetJson, parentTile))

\* The tileset when hierarchies of several shapes are loaded into it.
NextTree ==
    \/ LoadTilesetTree
    \/ LoadExternalTileset

SpecTree == Init /\ [][NextTree]_vars

\* Tileset.js 1111-1119: get root().
rootGetter(s) ==
    IF ~s.tileset.ready
    THEN [throws |-> "DeveloperError",
          message |-> "The tileset is not loaded.  Use Cesium3DTileset.readyPromise or wait for Cesium3DTileset.ready to be true."]
    ELSE [value |-> s.tileset.root]

\* The tileset with a throwing tileLoad listener, when no fetch and no
\* content processor fails.
NextThrowing ==
    \/ LoadTileset
    \/ UpdateFixedFrameLoading
    \/ RawContentArrived

SpecThrowing == InitThrowing /\ [][NextThrowing]_vars

\* The tileset when the requested list may name empty tiles.
NextEmptyRequested ==
    \/ LoadTileset
    \/ UpdateFixedFrameEmptyRequested
    \/ RawContentArrived
    \/ ContentFailed
    \/ Expire
    \/ UnloadTiles

SpecEmptyRequested == Init /\ [][NextEmptyRequested]_vars

\* ===================================================================== claims
NonDecreasing(q) == \A i, j \in 1..Len(q) : i < j => priority[q[i]] <= priority[q[j]]

\* C1: in every frame requestContent is called on the tiles of the requested
\* list in non-decreasing _priority order, and the calls run over the list
\* as sorted: the call sequence of the frame is the sorted list itself.
C1_RequestsIssuedInPriorityOrder ==
    /\ NonDecreasing(requestLog)
    /\ requestLog = requestedTiles

\* A frame in which the traversal found the root (priority 50) before its
\* child (priority 40), and a request went out.
C1_Witness ==
    /\ lastStep = "frame"
    /\ Len(requestLog) >= 2
    /\ requestLog[1] = 2
    /\ requestLog[2] = 1
    /\ priority[2] < priority[1]
    /\ statistics.numberOfPendingRequests > 0

\* C3: the continuations of one request take numberOfPendingRequests down at
\* most once in total, also when a failure (cancellation) and the stale
\* fetch's completion are both delivered, in either order.
C3_PendingDecrementedAtMostOnce ==
    \A i \in 1..Len(requests) : requests[i].decs <= 1

\* C2: a request whose two promises have both settled, whatever the outcome,
\* has taken numberOfPendingRequests down exactly once.
C2_PendingDecrementedExactlyOnce ==
    \A i \in 1..Len(requests) :
        (Finished(requests[i]) \/ requests[i].settled = "failed")
            => requests[i].decs = 1

\* C4: a completion that finds its tile in a state it does not belong to (the
\* tile makes no transition) leaves the counters and the processing queue alone.
C4_StaleCompletionChangesNothing ==
    [][(lastStep' \in {"raw", "failed"} /\ contentState' = contentState)
          => (/\ statistics'.numberOfPendingRequests = statistics.numberOfPendingRequests
              /\ statistics'.numberOfTilesProcessing = statistics.numberOfTilesProcessing
              /\ processingQueue' = processingQueue)]_vars

EventTiles(name) == {events[i].tile : i \in {j \in 1..Len(events) : events[j].name = name}}

\* C5: the eviction pass unloads no tile that was touched in the current
\* frame, however far over budget the tileset is: every tile touched in the
\* frame is still resident and holds its content, and no tileUnload of the
\* pass names a touched tile.
C5_EvictionSparesTouchedTiles ==
    /\ \A t \in touched : t \in Range(cache) /\ contentState[t] # UNLOADED
    /\ lastStep = "unload" => EventTiles("tileUnload") \cap touched = {}

\* Budget 0, two resident tiles, both touched this frame, the pass has run.
C5_Witness ==
    /\ lastStep = "unload"
    /\ tileset.maximumMemoryUsage = 0
    /\ totalMemoryUsageInBytes(State) > 0
    /\ Cardinality(Range(cache) \cap touched) = 2
    /\ Len(cache) = 2
    /\ events = <<>>

\* C6: every frame update of a ready tileset ends with the eviction policy
\* applied: resident bytes within maximumMemoryUsage, or nothing resident
\* that was not touched in the frame.
C6_FrameEndsWithinBudgetOrAllTouched ==
    (lastStep = "frame" /\ tileset.ready /\ tileset.visible) =>
        \/ totalMemoryUsageInBytes(State) <= tileset.maximumMemoryUsage
        \/ Range(cache) \subseteq touched

ContentBytes(t) ==
    content[t].geometryByteLength + content[t].texturesByteLength
        + content[t].batchTableByteLength

RECURSIVE ResidentBytes(_)
ResidentBytes(S) ==
    IF S = {} THEN 0
    ELSE LET x == CHOOSE y \in S : TRUE
         IN ContentBytes(x) + ResidentBytes(S \ {x})

\* C7: the tracked byte totals equal the bytes of the tiles resident in the
\* cache, and no total is negative.
C7_TrackedBytesEqualResidentBytes ==
    /\ totalMemoryUsageInBytes(State) = ResidentBytes(Range(cache))
    /\ statistics.geometryByteLength >= 0
    /\ statistics.texturesByteLength >= 0
    /\ statistics.batchTableByteLength >= 0

\* C8 as claimed: every tile in the cache is READY, or EXPIRED with its old
\* content; none is UNLOADED, LOADING, PROCESSING or FAILED.
C8_CachedTilesAreReady ==
    \A t \in Range(cache) : contentState[t] \in {READY, EXPIRED}

\* C8 as amended: every tile in the cache holds loaded content and is READY,
\* EXPIRED, or in the reload of its expired content (LOADING, PROCESSING, or
\* FAILED by that reload); no UNLOADED tile and no tile without content is
\* in the cache, and the cache holds no tile twice.
C8_CachedTilesHoldContent ==
    /\ \A t \in Range(cache) :
          /\ content[t].present
          /\ contentState[t] # UNLOADED
    /\ Cardinality(Range(cache)) = Len(cache)

\* A cached tile whose reload after expiry has failed.
C8_Witness ==
    \E t \in Range(cache) : contentState[t] = FAILED /\ content[t].present

Selected == Range(selectedTiles)

\* The frame just run was a settled one: it processed no completion, wanted
\* no request, and nothing is pending or processing.
SettledFrame ==
    /\ lastStep = "frame"
    /\ events = <<>>
    /\ requestedTiles = <<>>
    /\ statistics.numberOfPendingRequests = 0
    /\ statistics.numberOfTilesProcessing = 0

Drawable(t) == {c \in Range(Children(t)) : tileKind[c] = "content"}

InState(st) == {t \in Tiles : contentState[t] = st /\ tileKind[t] = "content"}

\* C10: when tiles only load and are evicted, the counters, the byte totals
\* and the cache are a function of the tiles' current content states, so a
\* tile back in UNLOADED after eviction has left them as they were before its
\* request, and it holds nothing that tells it from a tile never loaded.
C10_RoundTripRestoresCounters ==
    /\ statistics.numberOfPendingRequests
          = Cardinality({t \in Tiles : contentState[t] = LOADING})
    /\ statistics.numberOfTilesProcessing
          = Cardinality({t \in Tiles : contentState[t] = PROCESSING})
    /\ statistics.numberOfTilesWithContentReady = Cardinality(InState(READY))
    /\ Range(cache) = InState(READY)
    /\ Len(cache) = Cardinality(InState(READY))
    /\ statistics.geometryByteLength + statistics.texturesByteLength
          + statistics.batchTableByteLength = ResidentBytes(InState(READY))
    /\ \A t \in Tiles :
          contentState[t] = UNLOADED => content[t] = NoContent

\* The root loaded, was evicted and has been requested again: tiles 2 and 3
\* were never visited.
C10_Witness ==
    /\ lastStep = "frame"
    /\ issued = 2
    /\ contentState[Root] = LOADING
    /\ \A t \in Tiles \ {Root} : contentState[t] = UNLOADED /\ priority[t] = 0
    /\ statistics.numberOfPendingRequests = 1
    /\ cache = <<>>

Occurrences(q, x) == Cardinality({i \in 1..Len(q) : q[i] = x})

\* C11: when a frame's handleTileSuccess adds to the cache a tile that is
\* already resident, the tile keeps its single entry, the cache grows only by
\* the tiles that were not resident, and the entries the frame did not touch
\* keep their order.
C11_AddOfResidentTileIsIdempotent ==
    [][(lastStep' = "frame"
          /\ \E i \in 1..Len(events') :
                events'[i].name = "tileLoad" /\ events'[i].tile \in Range(cache))
        => (/\ \A t \in Range(cache) : Occurrences(cache', t) = 1
            /\ Len(cache') = Len(cache) + Cardinality(Range(cache') \ Range(cache))
            /\ SelectSeq(cache', LAMBDA t : t \notin touched')
                  = SelectSeq(cache, LAMBDA t : t \notin touched'))]_vars

\* The reload of an expired, resident tile has just succeeded.
C11_Witness ==
    /\ lastStep = "frame"
    /\ \E i \in 1..Len(requests) :
          /\ requests[i].reload
          /\ requests[i].settled = "ready"
          /\ requests[i].tile \in Range(cache)
          /\ requests[i].tile \in EventTiles("tileLoad")

NoDuplicates(q) == \A i, j \in 1..Len(q) : q[i] = q[j] => i = j

\* C12: the requested-tiles list of a frame holds no tile twice, holds only
\* tiles the frame's own traversal visited (nothing carried over from an
\* earlier frame), and requestContent is called at most once per tile.
C12_RequestedAtMostOncePerFrame ==
    /\ NoDuplicates(requestedTiles)
    /\ NoDuplicates(requestLog)
    /\ lastStep = "frame" => Range(requestedTiles) \subseteq visitedTiles

\* A frame requests a child after an earlier frame requested the root: the
\* root is visited again and is not in the list.
C12_Witness ==
    /\ lastStep = "frame"
    /\ requestedTiles # <<>>
    /\ Root \in visitedTiles
    /\ Root \notin Range(requestedTiles)
    /\ contentState[Root] \in {PROCESSING, READY, FAILED}

\* Tiles the frame just run called requestContent on and was refused.
Refused == {t \in Range(requestLog) : tileKind[t] # "empty"
                                      /\ contentState[t] \in {UNLOADED, EXPIRED}}

\* C13: in a frame, numberOfPendingRequests rises by exactly the number of
\* requests granted and numberOfAttemptedRequests by exactly the number
\* refused; a refused tile gets no continuation and keeps its state, content,
\* cache membership and absence from the processing queue, so a tile granted
\* after any number of refusals has raised numberOfPendingRequests once.
C13_RefusedRequestChangesOnlyAttempts ==
    [][lastStep' = "frame" =>
        /\ statistics'.numberOfPendingRequests - statistics.numberOfPendingRequests
              = issued' - issued
        /\ statistics'.numberOfAttemptedRequests - statistics.numberOfAttemptedRequests
              = Cardinality(Refused')
        /\ \A t \in Refused' :
              /\ contentState'[t] = contentState[t]
              /\ content'[t] = content[t]
              /\ (t \in Range(cache')) = (t \in Range(cache))
              /\ t \notin Range(processingQueue')
              /\ \A i \in 1..Len(requests') :
                    requests'[i].tile = t => requests'[i] \in Range(requests)]_vars

\* The root was refused in one frame and granted in a later one: one pending
\* request, one attempt counted.
C13_Witness ==
    /\ lastStep = "frame"
    /\ statistics.numberOfAttemptedRequests = 1
    /\ issued = 1
    /\ contentState[Root] = LOADING
    /\ statistics.numberOfPendingRequests = 1
    /\ \A t \in Tiles \ {Root} : priority[t] = 0

EmptyTiles == {t \in Tiles : tileKind[t] = "empty"}

\* C14: requestContent called on a tile with empty content does nothing: the
\* tile stays UNLOADED without content or request, is neither cached nor
\* queued, and the frame's counters move only by the requests granted and
\* refused for the other tiles of the list.
C14_EmptyTileIsNeverRequested ==
    [][lastStep' = "frame" =>
        /\ \A t \in EmptyTiles :
              /\ contentState'[t] = UNLOADED
              /\ content'[t] = NoContent
              /\ CurrentRequest(State', t) = 0
              /\ t \notin Range(cache')
              /\ t \notin Range(processingQueue')
        /\ statistics'.numberOfPendingRequests - statistics.numberOfPendingRequests
              = issued' - issued
        /\ statistics'.numberOfAttemptedRequests - statistics.numberOfAttemptedRequests
              = Cardinality(Refused')
        /\ statistics'.numberOfTilesProcessing <= statistics.numberOfTilesProcessing]_vars

\* requestContent has been called on an empty tile and on a tile with
\* content, whose request is pending.
C14_Witness ==
    /\ lastStep = "frame"
    /\ Range(requestLog) \cap EmptyTiles # {}
    /\ Range(requestLog) \ EmptyTiles # {}
    /\ statistics.numberOfPendingRequests > 0

Raised(name, t) ==
    Cardinality({i \in 1..Len(events) : events[i] = [name |-> name, tile |-> t]})

\* C15: a frame update of a ready tileset ends with tile.update called once
\* on every tile of the frame's empty-tiles list, and with no tileVisible
\* raised for it.
C15_EmptyTilesUpdatedEachFrame ==
    (lastStep = "frame" /\ tileset.ready /\ tileset.visible) =>
        \A t \in Range(emptyTiles) :
            Raised("update", t) = 1 /\ Raised("tileVisible", t) = 0

\* Tiles whose content became ready, tiles that failed in processing, and
\* expired tiles whose reload was issued, in the step from the unprimed to
\* the primed state.
BecameReady == {t \in Tiles : contentState[t] = PROCESSING /\ contentState'[t] = READY}
FailedProcessing == {t \in Tiles : contentState[t] = PROCESSING /\ contentState'[t] = FAILED}
ReloadIssued == {t \in Tiles : /\ contentState[t] = EXPIRED
                               /\ contentState'[t] = LOADING
                               /\ tileKind[t] = "content"}

RECURSIVE BytesOf(_, _)
BytesOf(S, c) ==
    IF S = {} THEN 0
    ELSE LET x == CHOOSE y \in S : TRUE
         IN c[x].geometryByteLength + c[x].texturesByteLength
              + c[x].batchTableByteLength + BytesOf(S \ {x}, c)

\* C16: in a frame, every tile whose content becomes ready takes
\* numberOfTilesProcessing down by one and raises tileLoad exactly once; a
\* tile with content of its own adds its sizes to the load counts and one to
\* numberOfTilesWithContentReady and is in the cache afterwards; a tile
\* holding an external tileset adds nothing and is not cached.
C16_SuccessUpdatesCountsCacheAndNotifies ==
    [][lastStep' = "frame" =>
        LET own == {t \in BecameReady : tileKind[t] = "content"}
        IN /\ \A t \in Tiles :
                Cardinality({i \in 1..Len(events') :
                               events'[i] = [name |-> "tileLoad", tile |-> t]})
                  = IF t \in BecameReady THEN 1 ELSE 0
           /\ statistics'.numberOfTilesProcessing
                = statistics.numberOfTilesProcessing
                    - Cardinality(BecameReady) - Cardinality(FailedProcessing)
           /\ statistics'.numberOfTilesWithContentReady
                = statistics.numberOfTilesWithContentReady
                    + Cardinality(own) - Cardinality(ReloadIssued)
           /\ totalMemoryUsageInBytes(State') 
                = totalMemoryUsageInBytes(State)
                    + BytesOf(own, content') - BytesOf(ReloadIssued, content)
           /\ own \subseteq Range(cache')
           /\ Range(cache') \ Range(cache) = own \ Range(cache)]_vars

\* One frame completes a tile with content of its own and a tile that holds
\* an external tileset.
C16_Witness ==
    /\ lastStep = "frame"
    /\ \E t, u \in EventTiles("tileLoad") :
          /\ tileKind[t] = "content" /\ t \in Range(cache)
          /\ tileKind[u] = "tileset" /\ u \notin Range(cache)
    /\ statistics.numberOfTilesWithContentReady = 1

\* Positions of the notifications of one name in a list of events.
Named(evs, name) == {i \in 1..Len(evs) : evs[i].name = name}

\* Requests whose failure has been delivered and whose record is kept.
FailedRequests(reqs, keepAll) ==
    {i \in 1..Len(reqs) : reqs[i].settled = "failed" /\ (keepAll \/ ~reqs[i].raw)}

\* C17: every failure delivered in a step is reported exactly once and on
\* one channel: with a tileFailed listener the event is raised with the
\* tile's url and the error's message (its string form when it has none) and
\* nothing is logged; without one the same is logged and nothing raised. A
\* failure adds no cache entry, raises no tileLoad and increases neither the
\* load counts nor numberOfTilesWithContentReady.
C17_FailureReportedOnceOnOneChannel ==
    [][lastStep' \in {"frame", "failed"} =>
        LET raised == Named(events', "tileFailed")
            logged == Named(events', "log")
            used == IF tileset.tileFailedListeners > 0 THEN raised ELSE logged
        IN /\ Cardinality(raised) + Cardinality(logged)
                = Cardinality(FailedRequests(requests', TRUE))
                    - Cardinality(FailedRequests(requests, FALSE))
           /\ raised \cup logged = used
           /\ \A i \in used :
                /\ events'[i].url = Url(events'[i].tile)
                /\ \E r \in FailedRequests(requests', TRUE) :
                      /\ requests'[r].tile = events'[i].tile
                      /\ events'[i].message =
                            IF "message" \in DOMAIN requests'[r].error
                            THEN requests'[r].error.message
                            ELSE requests'[r].error.text
           /\ lastStep' = "failed" =>
                /\ cache' = cache
                /\ Named(events', "tileLoad") = {}
                /\ statistics'.numberOfTilesWithContentReady
                      = statistics.numberOfTilesWithContentReady
                /\ totalMemoryUsageInBytes(State') = totalMemoryUsageInBytes(State)
           /\ \A t \in FailedProcessing : t \in Range(cache') => t \in Range(cache)]_vars

\* A fetch failed with an error that has no message and a listener is
\* registered: tileFailed carries the error's string form, nothing is logged.
C17_Witness ==
    /\ lastStep = "failed"
    /\ tileset.tileFailedListeners > 0
    /\ Len(events) = 1
    /\ events[1].name = "tileFailed"
    /\ events[1].message = "404"
    /\ contentState[events[1].tile] = FAILED

\* C18: a failure leaves the other tiles' loading alone. In a frame,
\* requestContent is called on every tile of the requested list and
\* tile.process on every tile of the processing queue, whatever fails before
\* them, and the counters move by one per tile that settles; a failure
\* delivered between frames changes one counter by one and no other tile.
C18_FailureBlocksNoOtherTile ==
    [][/\ lastStep' = "frame" =>
            /\ requestLog' = requestedTiles'
            /\ \A t \in Range(requestLog') :
                  t \notin Refused' /\ tileKind[t] # "empty" => contentState'[t] = LOADING
            /\ \A t \in InProcessing : contentState'[t] \in {READY, FAILED}
            /\ statistics'.numberOfTilesProcessing
                  = statistics.numberOfTilesProcessing
                      - Cardinality(BecameReady) - Cardinality(FailedProcessing)
            /\ \A t \in BecameReady : tileKind[t] = "content" => t \in Range(cache')
       /\ lastStep' = "failed" =>
            /\ Cardinality({t \in Tiles : contentState'[t] # contentState[t]}) <= 1
            /\ content' = content
            /\ cache' = cache
            /\ processingQueue' = processingQueue
            /\ statistics'.numberOfPendingRequests + statistics'.numberOfTilesProcessing
                  = statistics.numberOfPendingRequests
                      + statistics.numberOfTilesProcessing - 1]_vars

\* In one frame a tile of the processing queue failed and a tile behind it in
\* the queue became ready.
C18_Witness ==
    /\ lastStep = "frame"
    /\ \E i, j \in 1..Len(events) :
          /\ i < j
          /\ events[i].name \in {"tileFailed", "log"}
          /\ events[j].name = "tileLoad"
          /\ contentState[events[i].tile] = FAILED
          /\ contentState[events[j].tile] = READY

\* Tiles whose expired content is being reloaded.
Reloading ==
    {t \in Tiles : /\ contentState[t] \in {LOADING, PROCESSING}
                   /\ CurrentRequest(State, t) # 0
                   /\ requests[CurrentRequest(State, t)].reload}

\* C19: while the reload of an expired tile is in flight, a tile with
\* content of its own is in the cache and still holds its old content; a
\* tile that holds an external tileset no longer has that tileset's tiles
\* below it.
C19_ReloadKeepsContentDropsSubtree ==
    \A t \in Reloading :
        /\ tileKind[t] = "content" => t \in Range(cache) /\ content[t].present
        /\ tileKind[t] = "tileset" => ~content[t].subtree

\* C20: an assignment of a value that is not a number, or is below 0, to
\* maximumScreenSpaceError or maximumMemoryUsage throws a DeveloperError
\* within the call and changes no setting; an assignment of a number >= 0
\* throws nothing and stores exactly that number in that setting alone.
C20_SetterRejectsOrStoresExactly ==
    [][lastStep' = "set" =>
        LET call == events'[1]
        IN IF call.value.type = "number" /\ call.value.num >= 0
           THEN /\ Len(events') = 1
                /\ tileset' = [tileset EXCEPT ![call.property] = call.value.num]
           ELSE /\ Len(events') = 2
                /\ events'[2].name = "DeveloperError"
                /\ tileset' = tileset]_vars

\* A negative maximumScreenSpaceError was just refused, and the value an
\* earlier assignment stored is still there.
C20_Witness ==
    /\ lastStep = "set"
    /\ Len(events) = 2
    /\ events[1].property = "maximumScreenSpaceError"
    /\ events[1].value = Number(0 - 1)
    /\ tileset.maximumScreenSpaceError = 1000
    /\ tileset.maximumMemoryUsage = 3

\* C21: the numeric settings of a tileset are never negative, whether they
\* were supplied to the constructor or assigned later.
C21_NumericSettingsNeverNegative ==
    \A field \in NumericOptions : tileset[field] >= 0

\* C22: once a malformed tileset document has arrived, the caller of
\* fromJson has been told: the tileset's ready promise is rejected.
C22_MalformedDocumentIsSurfaced ==
    (tileset.fetched /\ ~tileset.ready) => tileset.readyPromise = "rejected"

\* C23: the per-frame counters are reset when a frame starts, so at the end
\* of a frame numberOfAttemptedRequests is the number of requests that this
\* frame was refused.
C23_AttemptsCountOnlyThisFrame ==
    lastStep = "frame" =>
        statistics.numberOfAttemptedRequests = Cardinality(Refused)

\* Requests in flight and tiles in processing, as the statistics count them.
Loading(st) == st.numberOfPendingRequests + st.numberOfTilesProcessing

\* C24: a frame that starts with tiles loading and ends with no request
\* pending and no tile processing raises allTilesLoaded.
C24_AllTilesLoadedRaisedWhenLoadingEnds ==
    [][(lastStep' = "frame" /\ Loading(statistics) > 0 /\ Loading(statistics') = 0)
        => Cardinality(Named(events', "allTilesLoaded")) = 1]_vars

\* C25: the first frame that ends with nothing loading after tiles had been
\* loading raises initialTilesLoaded once and records that it did; a frame
\* of a tileset that has recorded it does not raise it.
C25_InitialTilesLoadedRaisedOnce ==
    [][lastStep' = "frame" =>
        IF /\ ~tileset.initialTilesLoaded
           /\ Loading(statistics) > 0 /\ Loading(statistics') = 0
        THEN /\ Cardinality(Named(events', "initialTilesLoaded")) = 1
             /\ tileset'.initialTilesLoaded
        ELSE Cardinality(Named(events', "initialTilesLoaded")) = 0]_vars

\* C26: a call of updateTiles raises, for each tile of the selected list in
\* list order, tileVisible and then that tile's update, each once, updates
\* the empty tiles after them without tileVisible, and adds the number of
\* selected tiles to statistics.selected.
C26_TileVisibleBeforeUpdateInListOrder ==
    [][lastStep' = "updateTiles" =>
        LET n == Len(selectedTiles')
            m == Len(emptyTiles')
        IN /\ Len(events') = 1 + 2 * n + m
           /\ \A i \in 1..n :
                /\ events'[2 * i] = [name |-> "tileVisible", tile |-> selectedTiles'[i]]
                /\ events'[2 * i + 1] = [name |-> "update", tile |-> selectedTiles'[i]]
           /\ \A j \in 1..m :
                events'[1 + 2 * n + j] = [name |-> "update", tile |-> emptyTiles'[j]]
           /\ statistics'.selected = statistics.selected + n]_vars

\* updateTiles has run on a frame that selected two tiles.
C26_Witness ==
    /\ lastStep = "updateTiles"
    /\ Len(selectedTiles) = 2
    /\ statistics.selected >= 2

\* The commands a sequence of tiles contributes, one per tile.
CommandsOf(tiles, Command(_)) == [i \in 1..Len(tiles) |-> Command(tiles[i])]

\* C28: after a call of updateTiles the frame's command list is the commands
\* it held before the call, then, when level skipping, mixed content, a
\* stencil buffer and a selected tile are all present, the stencil clear and
\* the backface commands of the unresolved selected tiles in selection order,
\* then the draw commands of the selected tiles in selection order; without
\* one of the four there is no stencil clear and no backface command.
\* numberOfCommands is the number of commands the call appended.
C28_CommandListOrder ==
    [][lastStep' = "updateTiles" =>
        LET frameState == events'[1].frameState
            active == /\ tileset'.skipLevelOfDetail /\ tileset'.hasMixedContent
                      /\ frameState.stencilBuffer /\ selectedTiles' # <<>>
            unresolved == SelectSeq(selectedTiles', LAMBDA t : t \in frameState.unresolved)
            draws == CommandsOf(selectedTiles', DrawCommand)
            backfaces == CommandsOf(unresolved, BackfaceCommand)
        IN /\ commandList' = IF active
                             THEN frameState.commandList \o <<stencilClearCommand>>
                                    \o backfaces \o draws
                             ELSE frameState.commandList \o draws
           /\ statistics'.numberOfCommands
                = Len(commandList') - Len(frameState.commandList)]_vars

\* The contract was active on a frame with commands of the scene's own, two
\* selected tiles and one of them unresolved.
C28_Witness ==
    /\ lastStep = "updateTiles"
    /\ Len(commandList) = 5
    /\ commandList[1] = SceneCommand
    /\ commandList[2] = stencilClearCommand
    /\ commandList[3].kind = "backface"
    /\ statistics.numberOfCommands = 4

TotalBytes(st) == st.geometryByteLength + st.texturesByteLength + st.batchTableByteLength

\* C27: in an eviction pass every unloaded tile is notified once, and its
\* listener finds the content still in the tile and the tile still counted
\* as ready; the byte totals fall by the sizes of the contents unloaded and
\* numberOfTilesWithContentReady by their number; after the pass the
\* unloaded tiles hold no content.
C27_UnloadNotifiesThenCountsThenReleases ==
    [][lastStep' = "unload" =>
        LET Unloaded == {events'[i].tile : i \in 1..Len(events')} IN
        /\ \A i \in 1..Len(events') :
              /\ events'[i].name = "tileUnload"
              /\ events'[i].content = content[events'[i].tile]
              /\ events'[i].content.present
              /\ events'[i].ready = statistics.numberOfTilesWithContentReady - (i - 1)
              /\ \A j \in 1..Len(events') : events'[j].tile = events'[i].tile => j = i
        /\ Unloaded = {t \in Tiles : content[t].present /\ ~content'[t].present}
        /\ \A t \in Unloaded : content'[t] = NoContent
        /\ statistics'.numberOfTilesWithContentReady
              = statistics.numberOfTilesWithContentReady - Len(events')
        /\ TotalBytes(statistics') = TotalBytes(statistics) - BytesOf(Unloaded, content)]_vars

\* One pass has unloaded two tiles.
C27_Witness ==
    /\ lastStep = "unload"
    /\ Len(events) = 2
    /\ events[1].tile # events[2].tile
    /\ \A i \in 1..2 : content[events[i].tile] = NoContent

\* The transitions of the content state machine as the claim lists them.
ListedTransitions ==
    {<<UNLOADED, LOADING>>, <<LOADING, PROCESSING>>, <<PROCESSING, READY>>,
     <<LOADING, FAILED>>, <<PROCESSING, FAILED>>}

\* The transitions of expiry, of the reload of expired content and of
\* eviction; a tile whose expired content is being reloaded is in the cache
\* and can be evicted while LOADING or PROCESSING.
ExpiryAndEviction ==
    {<<READY, EXPIRED>>, <<EXPIRED, LOADING>>, <<READY, UNLOADED>>,
     <<EXPIRED, UNLOADED>>, <<LOADING, UNLOADED>>, <<PROCESSING, UNLOADED>>}

Follows(Transitions) ==
    \A t \in Tiles :
        contentState'[t] # contentState[t] =>
            <<contentState[t], contentState'[t]>> \in Transitions

\* C29 as stated: a tile's content state changes only along the listed
\* transitions.
C29_OnlyListedTransitions == [][Follows(ListedTransitions)]_vars

\* C29: a tile's content state changes only along the listed transitions and
\* those of expiry, reload and eviction; none leaves FAILED. A tile goes to
\* LOADING only with a request issued for it; a tile that goes to PROCESSING
\* is in the processing queue, and a tile enters the queue only when a
\* request issued for it delivers; tileLoad is raised for a tile only when it
\* goes from PROCESSING to READY out of the queue.
C29_ContentStateMachine ==
    [][/\ Follows(ListedTransitions \cup ExpiryAndEviction)
       /\ \A t \in Tiles :
            /\ (contentState'[t] = LOADING /\ contentState[t] # LOADING)
                  => /\ issued' > issued
                     /\ CurrentRequest(State', t) # 0
            /\ (contentState'[t] = PROCESSING /\ contentState[t] # PROCESSING)
                  => t \in Range(processingQueue')
            /\ (t \in Range(processingQueue') /\ t \notin Range(processingQueue))
                  => \E i \in 1..Len(requests) : requests[i].tile = t
            /\ (\E i \in 1..Len(events') : events'[i] = [name |-> "tileLoad", tile |-> t])
                  => /\ t \in Range(processingQueue)
                     /\ contentState[t] = PROCESSING
                     /\ contentState'[t] = READY]_vars

\* A tile that was loaded, expired and evicted is UNLOADED again while
\* another tile has failed for good.
C29_Witness ==
    /\ lastStep = "unload"
    /\ \E i \in 1..Len(events) : events[i].name = "tileUnload"
    /\ \E t \in Tiles : contentState[t] = FAILED

\* C30: a call of updateDynamicScreenSpaceError writes the computed density,
\* a number from 0 to dynamicScreenSpaceErrorDensity that the frame state
\* and the configured density and falloff determine, and changes nothing
\* else of the tileset or its tiles.
C30_DynamicDensityWrittenInRange ==
    [][lastStep' = "dynamic" =>
        LET written == tileset'.dynamicScreenSpaceErrorComputedDensity IN
        /\ Len(events') = 1
        /\ written = ComputedDensity(State, events'[1].frameState)
        /\ ~written.nan
        /\ 0 <= written.num
        /\ written.num <= tileset.dynamicScreenSpaceErrorDensity * written.den
        /\ tileset' = [tileset EXCEPT !.dynamicScreenSpaceErrorComputedDensity = written]
        /\ UNCHANGED <<tileKind, contentState, content, priority, requestedTiles,
                       selectedTiles, emptyTiles, processingQueue, statistics, cache>>]_vars

\* C31: a frame's filter leaves in the processing queue exactly the entries
\* that were PROCESSING, in the order they had; the queue is shorter by the
\* number of entries that were not.
C31_FilterKeepsProcessingEntriesInOrder ==
    [][(lastStep' = "frame" /\ tileset.ready /\ tileset.visible) =>
        LET kept == SelectSeq(processingQueue, LAMBDA t : contentState[t] = PROCESSING)
            removed == {i \in 1..Len(processingQueue) :
                            contentState[processingQueue[i]] # PROCESSING}
        IN /\ processingQueue' = kept
           /\ Len(processingQueue') = Len(processingQueue) - Cardinality(removed)]_vars

\* After a frame one tile is still processing and queued, and a tile that was
\* queued before it and has finished is no longer in the queue.
C31_Witness ==
    /\ lastStep = "frame"
    /\ events = <<>>
    /\ \E t \in Tiles :
         /\ processingQueue = <<t>>
         /\ contentState[t] = PROCESSING
         /\ \E u \in Tiles \ {t} : contentState[u] \in {READY, FAILED}

\* Requests with the given raw-content and outcome status.
RequestsWith(raw, outcomes) ==
    {i \in 1..Len(requests) : requests[i].raw = raw /\ requests[i].settled \in outcomes}

\* C32: numberOfPendingRequests is the number of requests whose raw content
\* has neither arrived nor failed, numberOfTilesProcessing the number whose
\* raw content has arrived and which are neither ready nor failed, and
\* neither counter is negative.
C32_CountersMatchOutstandingRequests ==
    /\ statistics.numberOfPendingRequests = Cardinality(RequestsWith(FALSE, {"none"}))
    /\ statistics.numberOfTilesProcessing = Cardinality(RequestsWith(TRUE, {"none"}))
    /\ statistics.numberOfPendingRequests >= 0
    /\ statistics.numberOfTilesProcessing >= 0

C34_ReadyCountEqualsCachedTiles ==
    /\ statistics.numberOfTilesWithContentReady >= 0
    /\ statistics.numberOfTilesWithContentReady =
           Cardinality({t \in Range(cache) :
                           contentState[t] \notin {LOADING, PROCESSING}})

\* C35: for one request the success path and the failure path exclude each
\* other: a tile whose content became ready in a frame takes
\* numberOfTilesProcessing down by one and no failure is reported for it,
\* also when a tileLoad listener throws inside the success handler.
C35_SuccessExcludesFailure ==
    [][lastStep' = "frame" =>
        /\ \A i \in Named(events', "tileFailed") \cup Named(events', "log") :
              events'[i].tile \notin BecameReady
        /\ statistics'.numberOfTilesProcessing
              = statistics.numberOfTilesProcessing
                  - Cardinality(BecameReady) - Cardinality(FailedProcessing)]_vars

C37_FrameOfUnreadyOrHiddenTilesetIsNoOp ==
    [][(lastStep' = "frame" /\ (~tileset.ready \/ ~tileset.visible)) =>
         /\ requestedTiles' = requestedTiles
         /\ selectedTiles' = selectedTiles
         /\ emptyTiles' = emptyTiles
         /\ processingQueue' = processingQueue
         /\ cache' = cache
         /\ touched' = touched
         /\ statistics' = statistics
         /\ contentState' = contentState
         /\ content' = content
         /\ priority' = priority
         /\ tileset' = tileset
         /\ issued' = issued
         /\ requestLog' = <<>>
         /\ events' = <<>>
         /\ Range(requests') \subseteq Range(requests)]_vars

\* A frame was run on a loaded tileset that the caller had hidden while a
\* tile was being processed and the last frame's requested list was not empty.
C37_Witness ==
    /\ lastStep = "frame"
    /\ tileset.ready
    /\ ~tileset.visible
    /\ InProcessing # {}
    /\ requestedTiles # <<>>
    /\ \E t \in Tiles : contentState[t] = UNLOADED

\* Documents that loadTileset is to reject: no asset, or a version other than
\* 0.0 and 1.0.
Malformed(tilesetJson) ==
    \/ "asset" \notin DOMAIN tilesetJson
    \/ "version" \notin DOMAIN tilesetJson.asset
    \/ tilesetJson.asset.version \notin {"0.0", "1.0"}

\* C38: loadTileset rejects a document without asset or of an unsupported
\* version before it creates a tile or changes numberOfTilesTotal,
\* _allTilesAdditive or the base path; after a rejection during fromJson the
\* tileset is never ready, root access keeps throwing the not-loaded error
\* and the ready promise is never resolved; and the ready promise is
\* resolved only in states where ready is true.
C38_RejectedDocumentChangesNothing ==
    [][/\ (lastStep' \in {"load", "external"} /\ Malformed(events'[1].tilesetJson)) =>
            /\ \E i \in 1..Len(events') : events'[i].name = "RuntimeError"
            /\ tileset'.tiles = tileset.tiles
            /\ tileset'.root = tileset.root
            /\ statistics'.numberOfTilesTotal = statistics.numberOfTilesTotal
            /\ tileset'.allTilesAdditive = tileset.allTilesAdditive
            /\ tileset'.basePath = tileset.basePath
            /\ tileset'.ready = tileset.ready
            /\ tileset'.readyPromise = tileset.readyPromise
       /\ (tileset.fetched /\ ~tileset.ready) =>
            /\ ~tileset'.ready
            /\ tileset'.readyPromise # "resolved"
            /\ "throws" \in DOMAIN rootGetter(State')
       /\ tileset'.readyPromise = "resolved" =>
            /\ tileset'.ready
            /\ rootGetter(State') = [value |-> tileset'.root]
            /\ tileset'.root \in 1..Len(tileset'.tiles)]_vars

\* The document that arrived during fromJson names version 2.0: the tileset
\* holds no tile and is not ready.
C38_Witness ==
    /\ lastStep = "load"
    /\ "asset" \in DOMAIN events[1].tilesetJson
    /\ "version" \in DOMAIN events[1].tilesetJson.asset
    /\ events[1].tilesetJson.asset.version = "2.0"
    /\ tileset.fetched
    /\ ~tileset.ready
    /\ tileset.tiles = <<>>
    /\ tileset.readyPromise = "pending"

\* C39: loadTileset terminates and builds a strict tree. Exactly one tile is
\* created per header node; each tile created for a child header is in the
\* children list of its parent once and of no other tile; the children of a
\* tile are in header order; each tile's depth is its parent's plus one;
\* numberOfTilesTotal grows by the number of nodes in the document; and
\* _allTilesAdditive ends true only if it was true before and every tile
\* created has ADD refinement. The tiles that existed are left as they were,
\* but for the parentTile's children list, which gains the new root.
C39_LoadTilesetBuildsStrictTree ==
    [][(lastStep' \in {"load", "external"} /\ ~Malformed(events'[1].tilesetJson)) =>
        LET call == events'[1]
            nodes == Nodes(call.tilesetJson.root)
            before == tileset.tiles
            after == tileset'.tiles
            rootTile == Len(before) + 1
            created == rootTile..Len(after)
            ParentsOf(i) == {p \in 1..Len(after) : i \in Range(after[p].childrenTile)}
        IN /\ Len(after) = Len(before) + Len(nodes)
           /\ \A j \in 1..Len(nodes) :
                 Cardinality({i \in created : after[i].header = nodes[j]})
                   = Cardinality({k \in 1..Len(nodes) : nodes[k] = nodes[j]})
           /\ after[rootTile].header = call.tilesetJson.root
           /\ after[rootTile].parent = call.parentTile
           /\ ParentsOf(rootTile) = {call.parentTile} \ {NoTile}
           /\ \A i \in created \ {rootTile} :
                 /\ after[i].parent \in created
                 /\ ParentsOf(i) = {after[i].parent}
           /\ \A i \in created :
                 /\ \A p \in ParentsOf(i) :
                       /\ Occurrences(after[p].childrenTile, i) = 1
                       /\ after[i].depth = after[p].depth + 1
                 /\ [k \in 1..Len(after[i].childrenTile) |->
                        after[after[i].childrenTile[k]].header]
                      = (IF "children" \in DOMAIN after[i].header
                         THEN after[i].header.children ELSE <<>>)
           /\ \A i \in 1..Len(before) :
                 after[i] = IF i = call.parentTile
                            THEN [before[i] EXCEPT !.childrenTile = Append(@, rootTile)]
                            ELSE before[i]
           /\ statistics'.numberOfTilesTotal
                 = statistics.numberOfTilesTotal + Len(nodes)
           /\ tileset'.allTilesAdditive =>
                 /\ tileset.allTilesAdditive
                 /\ \A i \in created : after[i].refine = "ADD"]_vars

\* A hierarchy of four headers, two levels deep, has been loaded below a tile
\* of a tileset that held tiles already, and every tile so far is additive.
C39_Witness ==
    /\ lastStep = "external"
    /\ ~Malformed(events[1].tilesetJson)
    /\ Len(Nodes(events[1].tilesetJson.root)) = 4
    /\ events[1].parentTile # NoTile
    /\ tileset.tiles[events[1].parentTile].depth >= 1
    /\ Len(tileset.tiles) = 7
    /\ statistics.numberOfTilesTotal = 7
    /\ tileset.allTilesAdditive
====
